---- MODULE Spec2Model ----
(***************************************************************************)
(* Model of myniri (src/main.rs): a single-shot command dispatcher that    *)
(* talks to the niri compositor over its IPC socket.  One behaviour of the *)
(* model is one invocation of the program: the parsed command is fixed in  *)
(* Init, every blocking socket.send(...) round trip is one action whose    *)
(* reply is chosen by the environment, and the `?` / let-else / ensure!    *)
(* exits of the code end the invocation with result "err".                 *)
(*                                                                         *)
(* Option<T> is modelled as a sequence of length 0 (None) or 1 (Some).     *)
(* f64 coordinates are modelled as integers (logical units).               *)
(***************************************************************************)
EXTENDS Integers, Sequences, FiniteSets, TLC

VARIABLES cmd, direction, or_action, pc, window, output, sent, replies,
          delegate, moved, result, err

vars == <<cmd, direction, or_action, pc, window, output, sent, replies,
          delegate, moved, result, err>>

----------------------------------------------------------------------------
(* Bounds of the explored inputs *)
MaxId == 2
MaxTile == 1
MaxOrigin == 1
MaxDim == 1
MaxWs == 2
MaxCol == 3

(* Margins of the snap, main.rs:68-71 *)
LEFT_MARGIN == 0
BOTTOM_MARGIN == 48
TOP_MARGIN == 0
RIGHT_MARGIN == 0

----------------------------------------------------------------------------
(* Data *)
None == <<>>
Some(v) == <<v>>

Commands == {"FloatingSnapOr", "ToggleFollowMode", "ConsumeIntoLeft"}
Directions == {"Left", "Down", "Up", "Right"}

SetFixed(v) == [kind |-> "SetFixed", v |-> v]
AdjustFixed(v) == [kind |-> "AdjustFixed", v |-> v]

MoveFloatingWindowAction(id, x, y) ==
    [name |-> "MoveFloatingWindow", id |-> id, x |-> x, y |-> y]
MoveWindowUp == [name |-> "MoveWindowUp"]
FocusColumnLeft == [name |-> "FocusColumnLeft"]
ConsumeWindowIntoColumn == [name |-> "ConsumeWindowIntoColumn"]
FocusWindow(id) == [name |-> "FocusWindow", id |-> id]

(* The fallback is any niri_ipc::Action the caller names on the command    *)
(* line; MoveFloatingWindow is one of them.                                *)
OrActions ==
    { FocusColumnLeft,
      [name |-> "CloseWindow"],
      MoveFloatingWindowAction(None, AdjustFixed(1), AdjustFixed(0)) }

ReqFocusedWindow == [req |-> "FocusedWindow"]
ReqFocusedOutput == [req |-> "FocusedOutput"]
ReqAction(a) == [req |-> "Action", action |-> a]

(* niri_ipc::Window, the fields the program reads *)
Positions == {None} \cup {Some(<<ws, col>>) : ws \in 1..MaxWs, col \in 1..MaxCol}
Windows ==
    [id : 1..MaxId,
     is_floating : BOOLEAN,
     tile_size : (0..MaxTile) \X (0..MaxTile),
     pos_in_scrolling_layout : Positions]

(* niri_ipc::Output, the field the program reads *)
LogicalOutputs ==
    [x : (-MaxOrigin)..MaxOrigin, y : (-MaxOrigin)..MaxOrigin,
     width : 0..MaxDim, height : 0..MaxDim]
Outputs == [logical : {None} \cup {Some(l) : l \in LogicalOutputs}]

DefaultWindow ==
    [id |-> 1, is_floating |-> FALSE, tile_size |-> <<0, 0>>,
     pos_in_scrolling_layout |-> None]
DefaultOutput == [logical |-> None]

(* What one round trip can return: an io::Error of the transport, an       *)
(* Err(String) reply of the compositor, or Ok(Response).                   *)
(*   tag "IoErr"   : socket.send(..) returned Err                          *)
(*   tag "Err"     : the reply is Err(message)                             *)
(*   tag "Some"    : Ok(FocusedWindow(Some(w))) / Ok(FocusedOutput(Some(o)))*)
(*   tag "None"    : Ok(FocusedWindow(None)) / Ok(FocusedOutput(None))     *)
(*   tag "Other"   : Ok of another Response variant                        *)
(*   tag "Handled" : Ok(Handled), the answer to an action                  *)
WindowReplies ==
    {[tag |-> t, window |-> DefaultWindow] : t \in {"IoErr", "Err", "None", "Other"}}
    \cup {[tag |-> "Some", window |-> w] : w \in Windows}
OutputReplies ==
    {[tag |-> t, output |-> DefaultOutput] : t \in {"IoErr", "Err", "None", "Other"}}
    \cup {[tag |-> "Some", output |-> o] : o \in Outputs}
ActionReplies == {"IoErr", "Err", "Handled"}

(* How `nirius toggle-follow-mode` can end: .output() fails to spawn, or   *)
(* the child ran and exited with some status.                              *)
DelegateOutcomes == {"SpawnFailed", "ExitSuccess", "ExitFailure"}

----------------------------------------------------------------------------
(* Pure parts of the handlers *)

(* `socket.send(req)?.map_err(|e| anyhow!("{e}"))?` : both the transport   *)
(* error and the compositor's error reply leave main with Err.  The        *)
(* `let _ =` of the consume path binds only the Ok payload.                *)
RequestFailedSwallowFinal(req, tag) ==
    /\ tag \in {"IoErr", "Err"}
    /\ ~(/\ req.req = "Action"
         /\ req.action.name \in {"FocusColumnLeft", "ConsumeWindowIntoColumn",
                                 "FocusWindow"})
RequestFailedIoOnly(req, tag) == tag = "IoErr"
RequestFailed(req, tag) == tag \in {"IoErr", "Err"}

FailureMessage(tag) ==
    IF tag = "IoErr" THEN "io error" ELSE "compositor error"

(* let niri_ipc::Response::FocusedWindow(Some(window)) = ... else { bail } *)
WindowReceivedOrNone(reply) == reply.tag \in {"Some", "None"}
WindowReceived(reply) == reply.tag = "Some"

(* let niri_ipc::Response::FocusedOutput(Some(output)) = ... else { bail } *)
OutputReceived(reply) == reply.tag = "Some"

(* output.logical.map(|l| l.<field> as f64).unwrap_or_default() *)
LogicalX(o) == IF o.logical = None THEN 0 ELSE o.logical[1].x
LogicalY(o) == IF o.logical = None THEN 0 ELSE o.logical[1].y
LogicalWidth(o) == IF o.logical = None THEN 0 ELSE o.logical[1].width
LogicalHeight(o) == IF o.logical = None THEN 0 ELSE o.logical[1].height

(* let (x, y) = match direction { ... } : the offset inside the output of  *)
(* the one axis the direction pins.                                        *)
SnapTargetDownIgnoresTile(d, w, o) ==
    CASE d = "Left"  -> <<Some(LEFT_MARGIN), None>>
      [] d = "Down"  -> <<None, Some(LogicalHeight(o) - BOTTOM_MARGIN)>>
      [] d = "Up"    -> <<None, Some(TOP_MARGIN)>>
      [] d = "Right" -> <<Some(LogicalWidth(o) - RIGHT_MARGIN - w.tile_size[1]), None>>
SnapTargetNeedsGeometry(d, w, o) ==
    CASE d = "Left"  -> <<Some(LEFT_MARGIN), None>>
      [] d = "Down"  -> <<None, IF o.logical = None THEN None
                                ELSE Some(LogicalHeight(o) - BOTTOM_MARGIN - w.tile_size[2])>>
      [] d = "Up"    -> <<None, Some(TOP_MARGIN)>>
      [] d = "Right" -> <<IF o.logical = None THEN None
                          ELSE Some(LogicalWidth(o) - RIGHT_MARGIN - w.tile_size[1]), None>>
SnapTarget(d, w, o) ==
    CASE d = "Left"  -> <<Some(LEFT_MARGIN), None>>
      [] d = "Down"  -> <<None, Some(LogicalHeight(o) - BOTTOM_MARGIN - w.tile_size[2])>>
      [] d = "Up"    -> <<None, Some(TOP_MARGIN)>>
      [] d = "Right" -> <<Some(LogicalWidth(o) - RIGHT_MARGIN - w.tile_size[1]), None>>

(* x.map(|x| origin + x).map(SetFixed).unwrap_or(AdjustFixed(0.)) *)
PositionChangeOf(target, origin) ==
    IF target = None THEN AdjustFixed(0) ELSE SetFixed(origin + target[1])

(* The request of main.rs:94-103 *)
SnapMove(d, w, o) ==
    MoveFloatingWindowAction(Some(w.id),
                             PositionChangeOf(SnapTarget(d, w, o)[1], LogicalX(o)),
                             PositionChangeOf(SnapTarget(d, w, o)[2], LogicalY(o)))

(* if !window.is_floating { fallback } else { snap } *)
UsesFallbackWhenFloating(w) == w.is_floating
UsesFallback(w) == ~w.is_floating

(* if window.is_floating { nirius toggle-follow-mode } *)
InvokesDelegateAlways(w) == TRUE
InvokesDelegate(w) == w.is_floating

(* The two ensure! of consume-into-left; "" when both pass.  The first     *)
(* component of pos_in_scrolling_layout is the one compared with 1.        *)
ConsumePrecheckFloatingAllowed(w) ==
    IF w.pos_in_scrolling_layout /= None /\ w.pos_in_scrolling_layout[1][1] = 1
    THEN "cannot consume a window in the first column into left"
    ELSE ""
ConsumePrecheckSecondComponent(w) ==
    IF w.is_floating THEN "cannot consume a floating window"
    ELSE IF w.pos_in_scrolling_layout /= None /\ w.pos_in_scrolling_layout[1][2] = 1
    THEN "cannot consume a window in the first column into left"
    ELSE ""
ConsumePrecheck(w) ==
    IF w.is_floating THEN "cannot consume a floating window"
    ELSE IF w.pos_in_scrolling_layout /= None /\ w.pos_in_scrolling_layout[1][1] = 1
    THEN "cannot consume a window in the first column into left"
    ELSE ""

(* if let Some((in_ws, in_col)) = pos { if in_col != 1 { for _ in 0..(in_col - 1) } } *)
MoveUpCountOffByOne(w) ==
    IF w.pos_in_scrolling_layout = None THEN 0
    ELSE IF w.pos_in_scrolling_layout[1][2] /= 1
         THEN w.pos_in_scrolling_layout[1][2]
         ELSE 0
MoveUpCount(w) ==
    IF w.pos_in_scrolling_layout = None THEN 0
    ELSE IF w.pos_in_scrolling_layout[1][2] /= 1
         THEN w.pos_in_scrolling_layout[1][2] - 1
         ELSE 0

----------------------------------------------------------------------------
(* State machine *)

TypeOK ==
    /\ cmd \in Commands
    /\ direction \in Directions
    /\ or_action \in OrActions
    /\ pc \in {"connect", "query_window", "fallback", "query_output", "move",
               "delegate", "move_up", "focus_column_left", "consume",
               "focus_window", "done"}
    /\ window \in {None} \cup {Some(w) : w \in Windows}
    /\ output \in {None} \cup {Some(o) : o \in Outputs}
    /\ Len(sent) = Len(replies)
    /\ Len(delegate) <= 1
    /\ moved \in 0..MaxCol
    /\ result \in {"running", "ok", "err"}

(* After Args::parse(): the command is known, nothing has been done.       *)
(* direction and or_action exist only for floating-snap-or.                *)
Init ==
    /\ cmd \in Commands
    /\ direction \in (IF cmd = "FloatingSnapOr" THEN Directions ELSE {"Left"})
    /\ or_action \in (IF cmd = "FloatingSnapOr" THEN OrActions ELSE {FocusColumnLeft})
    /\ pc = "connect"
    /\ window = None
    /\ output = None
    /\ sent = <<>>
    /\ replies = <<>>
    /\ delegate = <<>>
    /\ moved = 0
    /\ result = "running"
    /\ err = ""

Send(req, tag) ==
    /\ sent' = Append(sent, req)
    /\ replies' = Append(replies, tag)

Exit(res, msg) ==
    /\ pc' = "done"
    /\ result' = res
    /\ err' = msg

Goto(label) ==
    /\ pc' = label
    /\ UNCHANGED <<result, err>>

(* let mut socket = Socket::connect()?; *)
Connect ==
    /\ pc = "connect"
    /\ \E ok \in BOOLEAN :
          IF ok THEN Goto("query_window") ELSE Exit("err", "connect failed")
    /\ UNCHANGED <<cmd, direction, or_action, window, output, sent, replies,
                   delegate, moved>>

(* floating-snap-or: FocusedWindow query and the branch on is_floating *)
SnapQueryWindow ==
    /\ pc = "query_window"
    /\ cmd = "FloatingSnapOr"
    /\ \E reply \in WindowReplies :
          /\ Send(ReqFocusedWindow, reply.tag)
          /\ IF RequestFailed(ReqFocusedWindow, reply.tag)
             THEN Exit("err", FailureMessage(reply.tag)) /\ UNCHANGED window
             ELSE IF ~WindowReceived(reply)
             THEN Exit("err", "failed to receive response") /\ UNCHANGED window
             ELSE /\ window' = Some(reply.window)
                  /\ IF UsesFallback(reply.window)
                     THEN Goto("fallback")
                     ELSE Goto("query_output")
    /\ UNCHANGED <<cmd, direction, or_action, output, delegate, moved>>

(* socket.send(Request::Action(or_action)) *)
SnapFallback ==
    /\ pc = "fallback"
    /\ \E tag \in ActionReplies :
          /\ Send(ReqAction(or_action), tag)
          /\ IF RequestFailed(ReqAction(or_action), tag)
             THEN Exit("err", FailureMessage(tag))
             ELSE Exit("ok", "")
    /\ UNCHANGED <<cmd, direction, or_action, window, output, delegate, moved>>

(* FocusedOutput query *)
SnapQueryOutput ==
    /\ pc = "query_output"
    /\ \E reply \in OutputReplies :
          /\ Send(ReqFocusedOutput, reply.tag)
          /\ IF RequestFailed(ReqFocusedOutput, reply.tag)
             THEN Exit("err", FailureMessage(reply.tag)) /\ UNCHANGED output
             ELSE IF ~OutputReceived(reply)
             THEN Exit("err", "failed to receive response") /\ UNCHANGED output
             ELSE output' = Some(reply.output) /\ Goto("move")
    /\ UNCHANGED <<cmd, direction, or_action, window, delegate, moved>>

(* socket.send(Request::Action(Action::MoveFloatingWindow { .. })) *)
SnapSendMove ==
    /\ pc = "move"
    /\ LET req == ReqAction(SnapMove(direction, window[1], output[1])) IN
       \E tag \in ActionReplies :
          /\ Send(req, tag)
          /\ IF RequestFailed(req, tag)
             THEN Exit("err", FailureMessage(tag))
             ELSE Exit("ok", "")
    /\ UNCHANGED <<cmd, direction, or_action, window, output, delegate, moved>>

(* toggle-follow-mode: FocusedWindow query and the branch on is_floating *)
ToggleQueryWindow ==
    /\ pc = "query_window"
    /\ cmd = "ToggleFollowMode"
    /\ \E reply \in WindowReplies :
          /\ Send(ReqFocusedWindow, reply.tag)
          /\ IF RequestFailed(ReqFocusedWindow, reply.tag)
             THEN Exit("err", FailureMessage(reply.tag)) /\ UNCHANGED window
             ELSE IF ~WindowReceived(reply)
             THEN Exit("err", "failed to receive response") /\ UNCHANGED window
             ELSE /\ window' = Some(reply.window)
                  /\ IF InvokesDelegate(reply.window)
                     THEN Goto("delegate")
                     ELSE Exit("ok", "")
    /\ UNCHANGED <<cmd, direction, or_action, output, delegate, moved>>

(* std::process::Command::new("nirius")...arg("toggle-follow-mode").output()? *)
ToggleDelegate ==
    /\ pc = "delegate"
    /\ \E outcome \in DelegateOutcomes :
          /\ delegate' = Append(delegate, outcome)
          /\ IF outcome = "SpawnFailed"
             THEN Exit("err", "io error")
             ELSE Exit("ok", "")
    /\ UNCHANGED <<cmd, direction, or_action, window, output, sent, replies, moved>>

(* consume-into-left: FocusedWindow query, the two ensure!, loop entry *)
ConsumeQueryWindow ==
    /\ pc = "query_window"
    /\ cmd = "ConsumeIntoLeft"
    /\ \E reply \in WindowReplies :
          /\ Send(ReqFocusedWindow, reply.tag)
          /\ IF RequestFailed(ReqFocusedWindow, reply.tag)
             THEN Exit("err", FailureMessage(reply.tag)) /\ UNCHANGED window
             ELSE IF ~WindowReceived(reply)
             THEN Exit("err", "failed to receive response") /\ UNCHANGED window
             ELSE /\ window' = Some(reply.window)
                  /\ IF ConsumePrecheck(reply.window) /= ""
                     THEN Exit("err", ConsumePrecheck(reply.window))
                     ELSE IF MoveUpCount(reply.window) > 0
                     THEN Goto("move_up")
                     ELSE Goto("focus_column_left")
    /\ UNCHANGED <<cmd, direction, or_action, output, delegate, moved>>

(* one iteration of the for loop: send MoveWindowUp *)
ConsumeMoveWindowUp ==
    /\ pc = "move_up"
    /\ \E tag \in ActionReplies :
          /\ Send(ReqAction(MoveWindowUp), tag)
          /\ IF RequestFailed(ReqAction(MoveWindowUp), tag)
             THEN Exit("err", FailureMessage(tag)) /\ UNCHANGED moved
             ELSE /\ moved' = moved + 1
                  /\ IF moved + 1 < MoveUpCount(window[1])
                     THEN Goto("move_up")
                     ELSE Goto("focus_column_left")
    /\ UNCHANGED <<cmd, direction, or_action, window, output, delegate>>

ConsumeFocusColumnLeft ==
    /\ pc = "focus_column_left"
    /\ \E tag \in ActionReplies :
          /\ Send(ReqAction(FocusColumnLeft), tag)
          /\ IF RequestFailed(ReqAction(FocusColumnLeft), tag)
             THEN Exit("err", FailureMessage(tag))
             ELSE Goto("consume")
    /\ UNCHANGED <<cmd, direction, or_action, window, output, delegate, moved>>

ConsumeWindow ==
    /\ pc = "consume"
    /\ \E tag \in ActionReplies :
          /\ Send(ReqAction(ConsumeWindowIntoColumn), tag)
          /\ IF RequestFailed(ReqAction(ConsumeWindowIntoColumn), tag)
             THEN Exit("err", FailureMessage(tag))
             ELSE Goto("focus_window")
    /\ UNCHANGED <<cmd, direction, or_action, window, output, delegate, moved>>

ConsumeFocusWindow ==
    /\ pc = "focus_window"
    /\ LET req == ReqAction(FocusWindow(window[1].id)) IN
       \E tag \in ActionReplies :
          /\ Send(req, tag)
          /\ IF RequestFailed(req, tag)
             THEN Exit("err", FailureMessage(tag))
             ELSE Exit("ok", "")
    /\ UNCHANGED <<cmd, direction, or_action, window, output, delegate, moved>>

Next ==
    \/ Connect
    \/ SnapQueryWindow
    \/ SnapFallback
    \/ SnapQueryOutput
    \/ SnapSendMove
    \/ ToggleQueryWindow
    \/ ToggleDelegate
    \/ ConsumeQueryWindow
    \/ ConsumeMoveWindowUp
    \/ ConsumeFocusColumnLeft
    \/ ConsumeWindow
    \/ ConsumeFocusWindow

Spec == Init /\ [][Next]_vars

----------------------------------------------------------------------------
(* Observations used by the properties *)

(* The actions sent so far, in order (queries left out) *)
ActionsSent ==
    LET S == SelectSeq(sent, LAMBDA r : r.req = "Action")
    IN  [i \in 1..Len(S) |-> S[i].action]

Repeat(a, n) == [i \in 1..n |-> a]

IsPrefix(s, t) == Len(s) <= Len(t) /\ \A i \in 1..Len(s) : s[i] = t[i]

Finished == pc = "done"

FinalConsumeActions == {"FocusColumnLeft", "ConsumeWindowIntoColumn", "FocusWindow"}

----------------------------------------------------------------------------
(* C1: floating-snap-or on a floating window of tile size (w,h) with an    *)
(* output of logical geometry (ox,oy,ow,oh) sends exactly one              *)
(* MoveFloatingWindow, addressed to the focused window, with               *)
(* Left: x = SetFixed(ox); Right: x = SetFixed(ox+ow-w); Up: y =           *)
(* SetFixed(oy); Down: y = SetFixed(oy+oh-48-h); the other axis is         *)
(* AdjustFixed(0).                                                         *)
C1_SnapMoveArguments ==
    (/\ cmd = "FloatingSnapOr"
     /\ Finished
     /\ window /= None /\ window[1].is_floating
     /\ output /= None /\ output[1].logical /= None)
    => LET w  == window[1].tile_size[1]
           h  == window[1].tile_size[2]
           l  == output[1].logical[1]
           px == CASE direction = "Left"  -> SetFixed(l.x)
                   [] direction = "Right" -> SetFixed(l.x + l.width - w)
                   [] OTHER               -> AdjustFixed(0)
           py == CASE direction = "Up"    -> SetFixed(l.y)
                   [] direction = "Down"  -> SetFixed(l.y + l.height - 48 - h)
                   [] OTHER               -> AdjustFixed(0)
       IN  /\ ActionsSent = <<[name |-> "MoveFloatingWindow",
                               id |-> Some(window[1].id), x |-> px, y |-> py]>>
           /\ (px.kind = "SetFixed") /= (py.kind = "SetFixed")

C1_Witness ==
    /\ cmd = "FloatingSnapOr" /\ Finished /\ result = "ok"
    /\ direction = "Down"
    /\ window /= None /\ window[1].is_floating /\ window[1].id = 2
    /\ window[1].tile_size = <<0, 1>>
    /\ output /= None
    /\ output[1].logical = Some([x |-> 1, y |-> -1, width |-> 1, height |-> 1])
    /\ ActionsSent = <<MoveFloatingWindowAction(Some(2), AdjustFixed(0), SetFixed(-49))>>

(* C2: consume-into-left on a non-floating window W that passes the        *)
(* preconditions sends k MoveWindowUp, FocusColumnLeft,                    *)
(* ConsumeWindowIntoColumn, FocusWindow{id: W} in that order and nothing   *)
(* else, with k = column - 1 when the window has a scrolling position and  *)
(* k = 0 when it has none: at every moment the actions sent are a prefix   *)
(* of that sequence, and a successful run has sent all of it.              *)
C2_ConsumeSequence ==
    (/\ cmd = "ConsumeIntoLeft"
     /\ window /= None /\ ~window[1].is_floating
     /\ (window[1].pos_in_scrolling_layout /= None
            => window[1].pos_in_scrolling_layout[1][1] /= 1))
    => LET pos == window[1].pos_in_scrolling_layout
           k == IF pos = None THEN 0 ELSE pos[1][2] - 1
           expected == Repeat([name |-> "MoveWindowUp"], k)
                       \o << [name |-> "FocusColumnLeft"],
                             [name |-> "ConsumeWindowIntoColumn"],
                             [name |-> "FocusWindow", id |-> window[1].id] >>
       IN  /\ IsPrefix(ActionsSent, expected)
           /\ (Finished /\ result = "ok" => ActionsSent = expected)
           /\ (Finished /\ result = "err" => replies[Len(replies)] \in {"IoErr", "Err"})

C2_Witness ==
    /\ cmd = "ConsumeIntoLeft" /\ Finished /\ result = "ok"
    /\ window /= None /\ ~window[1].is_floating /\ window[1].id = 2
    /\ window[1].pos_in_scrolling_layout = Some(<<2, 3>>)
    /\ ActionsSent = <<MoveWindowUp, MoveWindowUp, FocusColumnLeft,
                       ConsumeWindowIntoColumn, FocusWindow(2)>>

(* C3 as stated: floating-snap-or on a non-floating window sends exactly   *)
(* one action, the fallback unchanged, never sends a MoveFloatingWindow    *)
(* action and never queries the focused output.                            *)
C3_Original ==
    (/\ cmd = "FloatingSnapOr"
     /\ window /= None /\ ~window[1].is_floating)
    => /\ (Finished => ActionsSent = <<or_action>>)
       /\ \A i \in 1..Len(ActionsSent) : ActionsSent[i].name /= "MoveFloatingWindow"
       /\ \A i \in 1..Len(sent) : sent[i] /= ReqFocusedOutput

(* C3 amended: floating-snap-or on a non-floating window sends exactly one *)
(* action, the fallback unchanged, and never queries the focused output;   *)
(* a MoveFloatingWindow is sent only when the fallback itself is one.      *)
C3_FallbackOnly ==
    (/\ cmd = "FloatingSnapOr"
     /\ window /= None /\ ~window[1].is_floating)
    => /\ IsPrefix(ActionsSent, <<or_action>>)
       /\ (Finished => ActionsSent = <<or_action>>)
       /\ \A i \in 1..Len(ActionsSent) :
             ActionsSent[i].name = "MoveFloatingWindow"
                => or_action.name = "MoveFloatingWindow" /\ ActionsSent[i] = or_action
       /\ \A i \in 1..Len(sent) : sent[i] /= ReqFocusedOutput
       /\ output = None

C3_Witness ==
    /\ cmd = "FloatingSnapOr" /\ Finished /\ result = "ok"
    /\ window /= None /\ ~window[1].is_floating
    /\ or_action = [name |-> "CloseWindow"]
    /\ sent = <<ReqFocusedWindow, ReqAction([name |-> "CloseWindow"])>>

C5_FirstWorkspaceFails ==
    (/\ cmd = "ConsumeIntoLeft"
     /\ window /= None /\ ~window[1].is_floating
     /\ window[1].pos_in_scrolling_layout /= None
     /\ window[1].pos_in_scrolling_layout[1][1] = 1)
    => /\ Finished
       /\ result = "err"
       /\ err = "cannot consume a window in the first column into left"
       /\ sent = <<ReqFocusedWindow>>

C5_Witness ==
    /\ cmd = "ConsumeIntoLeft" /\ Finished /\ result = "err"
    /\ window /= None /\ ~window[1].is_floating
    /\ window[1].pos_in_scrolling_layout = Some(<<1, 3>>)
    /\ sent = <<ReqFocusedWindow>>

(* C6: consume-into-left on a floating window fails and sends no action,   *)
(* whatever the layout descriptor of the window says.                      *)
C6_FloatingFails ==
    (/\ cmd = "ConsumeIntoLeft"
     /\ window /= None /\ window[1].is_floating)
    => /\ Finished
       /\ result = "err"
       /\ err = "cannot consume a floating window"
       /\ sent = <<ReqFocusedWindow>>

C6_Witness ==
    /\ cmd = "ConsumeIntoLeft" /\ Finished /\ result = "err"
    /\ window /= None /\ window[1].is_floating
    /\ window[1].pos_in_scrolling_layout = Some(<<2, 3>>)
    /\ sent = <<ReqFocusedWindow>>

(* C7: toggle-follow-mode invokes the delegate exactly once when the       *)
(* focused window is floating and never when it is not; on a non-floating  *)
(* window it exits successfully; it sends no Action request at all.        *)
C7_DelegateOnlyWhenFloating ==
    cmd = "ToggleFollowMode"
    => /\ ActionsSent = <<>>
       /\ Len(delegate) <= 1
       /\ (window = None => delegate = <<>>)
       /\ (window /= None /\ ~window[1].is_floating
              => delegate = <<>> /\ Finished /\ result = "ok")
       /\ (window /= None /\ window[1].is_floating /\ Finished
              => Len(delegate) = 1)

C7_Witness ==
    /\ cmd = "ToggleFollowMode" /\ Finished /\ result = "ok"
    /\ window /= None /\ window[1].is_floating
    /\ delegate = <<"ExitFailure">>
    /\ sent = <<ReqFocusedWindow>>

(* C8: in every command a request that gets a transport failure or an      *)
(* error reply ends the command with failure: it is the last request sent  *)
(* (nothing follows it, it is not sent again).                             *)
C8_FailedRequestIsLast ==
    \A i \in 1..Len(sent) :
       replies[i] \in {"IoErr", "Err"}
       => /\ i = Len(sent)
          /\ Finished
          /\ result = "err"

C8_Witness ==
    /\ cmd = "ConsumeIntoLeft" /\ Finished /\ result = "err"
    /\ window /= None
    /\ window[1].pos_in_scrolling_layout = Some(<<2, 3>>)
    /\ sent = <<ReqFocusedWindow, ReqAction(MoveWindowUp), ReqAction(MoveWindowUp)>>
    /\ replies = <<"Some", "Handled", "Err">>

(* C9: the FocusedWindow query is the first request of every command; if   *)
(* it reports no focused window the command fails with no action sent and  *)
(* no delegate invoked; in floating-snap-or on a floating window, if the   *)
(* FocusedOutput query reports no output the command fails and no          *)
(* MoveFloatingWindow is sent.                                             *)
C9_QueryMissIsFatal ==
    /\ (sent /= <<>> => sent[1] = ReqFocusedWindow)
    /\ (Len(replies) >= 1 /\ replies[1] \in {"None", "Other"}
           => /\ Finished /\ result = "err"
              /\ err = "failed to receive response"
              /\ sent = <<ReqFocusedWindow>>
              /\ delegate = <<>>)
    /\ (Len(replies) >= 2 /\ sent[2] = ReqFocusedOutput
           /\ replies[2] \in {"None", "Other"}
           => /\ Finished /\ result = "err"
              /\ err = "failed to receive response"
              /\ sent = <<ReqFocusedWindow, ReqFocusedOutput>>)

C9_Witness ==
    /\ cmd = "FloatingSnapOr" /\ Finished /\ result = "err"
    /\ window /= None /\ window[1].is_floating
    /\ sent = <<ReqFocusedWindow, ReqFocusedOutput>>
    /\ replies = <<"Some", "None">>

(* C10: floating-snap-or on a floating window of tile size (w,h) whose     *)
(* output carries no logical geometry still sends the move, computed with  *)
(* ox = oy = ow = oh = 0: Left x = SetFixed(0); Right x = SetFixed(-w);    *)
(* Up y = SetFixed(0); Down y = SetFixed(-48-h); other axis AdjustFixed(0).*)
C10_MissingGeometryIsZero ==
    (/\ cmd = "FloatingSnapOr"
     /\ window /= None /\ window[1].is_floating
     /\ output /= None /\ output[1].logical = None)
    => LET w  == window[1].tile_size[1]
           h  == window[1].tile_size[2]
           px == CASE direction = "Left"  -> SetFixed(0)
                   [] direction = "Right" -> SetFixed(0 - w)
                   [] OTHER               -> AdjustFixed(0)
           py == CASE direction = "Up"    -> SetFixed(0)
                   [] direction = "Down"  -> SetFixed(0 - 48 - h)
                   [] OTHER               -> AdjustFixed(0)
           move == [name |-> "MoveFloatingWindow",
                    id |-> Some(window[1].id), x |-> px, y |-> py]
       IN  /\ pc \in {"move", "done"}
           /\ (pc = "move" => result = "running" /\ ActionsSent = <<>>)
           /\ (Finished => ActionsSent = <<move>>)
           /\ (Finished /\ replies[Len(replies)] = "Handled" => result = "ok")

C10_Witness ==
    /\ cmd = "FloatingSnapOr" /\ Finished /\ result = "ok"
    /\ direction = "Right"
    /\ window /= None /\ window[1].is_floating /\ window[1].id = 1
    /\ window[1].tile_size = <<1, 0>>
    /\ output = Some([logical |-> None])
    /\ ActionsSent = <<MoveFloatingWindowAction(Some(1), SetFixed(-1), AdjustFixed(0))>>

====
